---- MODULE Spec2Model ----
(***************************************************************************)
(* Board of src/components.py: the Minesweeper grid, lazy mine placement   *)
(* with a safe first click, recursive flood-fill reveal, flagging and the  *)
(* win / loss flags.                                                       *)
(***************************************************************************)
EXTENDS Integers, Sequences, FiniteSets

\* ---------------------------------------------------------------- bounds
\* most cells of a board (cols * rows)
MaxCells == 6
MaxMines == 2
\* most cells that carry a flag at the same time
MaxFlags == 2

\* ----------------------------------------------------------------- state
VARIABLES cols, rows, num_mines, cells, mines_placed, revealed_count,
          game_over, win, result

vars == <<cols, rows, num_mines, cells, mines_placed, revealed_count,
          game_over, win, result>>

\* Python values a Board method hands back to its caller
PyNone == [type |-> "NoneType", val |-> 0]
PyInt(n) == [type |-> "int", val |-> n]
Returned(v) == [exc |-> "none", value |-> v]
Raised(e) == [exc |-> e, value |-> PyNone]

\* CellState.__init__ defaults
CellState == [is_mine |-> FALSE, is_revealed |-> FALSE, is_flagged |-> FALSE,
              adjacent |-> 0]

\* the mutable part of a Board, threaded through the methods below
Self == [cells |-> cells, mines_placed |-> mines_placed,
         revealed_count |-> revealed_count, game_over |-> game_over,
         win |-> win, exc |-> "none"]

\* ------------------------------------------------------------- geometry
index(col, row) == row * cols + col

is_inbounds(col, row) == 0 <= col /\ col < cols /\ 0 <= row /\ row < rows

\* faulty variant: the diagonal offsets are missing
deltas_no_diagonals == << <<0, -1>>, <<-1, 0>>, <<1, 0>>, <<0, 1>> >>

deltas == << <<-1, -1>>, <<0, -1>>, <<1, -1>>,
             <<-1, 0>>,             <<1, 0>>,
             <<-1, 1>>,  <<0, 1>>,  <<1, 1>> >>

neighbors(col, row) ==
    LET cand == [i \in 1..Len(deltas) |->
                    <<col + deltas[i][1], row + deltas[i][2]>>]
    IN  SelectSeq(cand, LAMBDA p : is_inbounds(p[1], p[2]))

SeqRange(s) == {s[i] : i \in 1..Len(s)}

\* ------------------------------------------------------------ placement
all_positions == {<<c, r>> : c \in 0..(cols - 1), r \in 0..(rows - 1)}

\* faulty variant: only the clicked cell is kept free, its neighbours are not
forbidden_click_only(safe_col, safe_row) == {<<safe_col, safe_row>>}

forbidden(safe_col, safe_row) ==
    {<<safe_col, safe_row>>} \cup SeqRange(neighbors(safe_col, safe_row))

pool(safe_col, safe_row) == all_positions \ forbidden(safe_col, safe_row)

\* faulty variant: an oversized request is cut down to the population, nothing raises
random_sample_clamped(population, k) ==
    IF k > Cardinality(population)
    THEN {[raised |-> FALSE, picked |-> population]}
    ELSE {[raised |-> FALSE, picked |-> S] :
             S \in {T \in SUBSET population : Cardinality(T) = k}}

\* faulty variant: the draw is made with replacement (random.choices), so the
\* k picks may repeat and name fewer than k cells
random_sample_with_replacement(population, k) ==
    IF k > Cardinality(population) \/ k < 0
    THEN {[raised |-> TRUE, picked |-> {}]}
    ELSE {[raised |-> FALSE, picked |-> S] :
             S \in {T \in SUBSET population :
                       /\ Cardinality(T) <= k
                       /\ (k > 0 => T # {})}}

\* random.sample(population, k): every k-subset is a possible draw; a k larger
\* than the population (or negative) raises ValueError before anything is drawn
random_sample(population, k) ==
    IF k > Cardinality(population) \/ k < 0
    THEN {[raised |-> TRUE, picked |-> {}]}
    ELSE {[raised |-> FALSE, picked |-> S] :
             S \in {T \in SUBSET population : Cardinality(T) = k}}

\* faulty variant: the final "self._mines_placed = True" is missing
place_mines_flag_unset(self, safe_col, safe_row, sample) ==
    IF sample.raised
    THEN [self EXCEPT !.exc = "ValueError"]
    ELSE
      LET mined == [i \in DOMAIN self.cells |->
                      IF \E p \in sample.picked : index(p[1], p[2]) = i
                      THEN [self.cells[i] EXCEPT !.is_mine = TRUE]
                      ELSE self.cells[i]]
          count(c, r) ==
              LET ns == neighbors(c, r)
              IN  Cardinality({k \in 1..Len(ns) :
                                  mined[index(ns[k][1], ns[k][2])].is_mine})
          counted == [i \in DOMAIN mined |->
                        IF mined[i].is_mine
                        THEN mined[i]
                        ELSE [mined[i] EXCEPT
                                !.adjacent = count(i % cols, i \div cols)]]
      IN  [self EXCEPT !.cells = counted]

place_mines(self, safe_col, safe_row, sample) ==
    IF sample.raised
    THEN [self EXCEPT !.exc = "ValueError"]
    ELSE
      LET mined == [i \in DOMAIN self.cells |->
                      IF \E p \in sample.picked : index(p[1], p[2]) = i
                      THEN [self.cells[i] EXCEPT !.is_mine = TRUE]
                      ELSE self.cells[i]]
          count(c, r) ==
              LET ns == neighbors(c, r)
              IN  Cardinality({k \in 1..Len(ns) :
                                  mined[index(ns[k][1], ns[k][2])].is_mine})
          counted == [i \in DOMAIN mined |->
                        IF mined[i].is_mine
                        THEN mined[i]
                        ELSE [mined[i] EXCEPT
                                !.adjacent = count(i % cols, i \div cols)]]
      IN  [self EXCEPT !.cells = counted, !.mines_placed = TRUE]

\* ------------------------------------------------------- end of the game
\* faulty variant: the loss also takes the win back
reveal_all_mines_clears_win(self) ==
    [self EXCEPT !.win = FALSE,
                 !.cells =
        [i \in DOMAIN self.cells |->
            IF self.cells[i].is_mine
            THEN [self.cells[i] EXCEPT !.is_revealed = TRUE]
            ELSE self.cells[i]]]

\* faulty variant: "cell.state.is_revealed = cell.state.is_mine" for every
\* cell, which hides the cells opened so far
reveal_all_mines_hides_others(self) ==
    [self EXCEPT !.cells =
        [i \in DOMAIN self.cells |->
            [self.cells[i] EXCEPT !.is_revealed = self.cells[i].is_mine]]]

reveal_all_mines(self) ==
    [self EXCEPT !.cells =
        [i \in DOMAIN self.cells |->
            IF self.cells[i].is_mine
            THEN [self.cells[i] EXCEPT !.is_revealed = TRUE]
            ELSE self.cells[i]]]

\* faulty variant: the win test forgets "and not self.game_over"
check_win_after_loss(self) ==
    LET total_cells == cols * rows
    IN  IF self.revealed_count = total_cells - num_mines
        THEN [self EXCEPT
                !.win = TRUE,
                !.cells = [i \in DOMAIN self.cells |->
                    IF ~self.cells[i].is_revealed /\ ~self.cells[i].is_mine
                    THEN [self.cells[i] EXCEPT !.is_revealed = TRUE]
                    ELSE self.cells[i]]]
        ELSE self

\* faulty variant: the completion loop forgets "and not cell.state.is_mine"
check_win_opens_mines(self) ==
    LET total_cells == cols * rows
    IN  IF self.revealed_count = total_cells - num_mines /\ ~self.game_over
        THEN [self EXCEPT
                !.win = TRUE,
                !.cells = [i \in DOMAIN self.cells |->
                    [self.cells[i] EXCEPT !.is_revealed = TRUE]]]
        ELSE self

check_win(self) ==
    LET total_cells == cols * rows
    IN  IF self.revealed_count = total_cells - num_mines /\ ~self.game_over
        THEN [self EXCEPT
                !.win = TRUE,
                !.cells = [i \in DOMAIN self.cells |->
                    IF ~self.cells[i].is_revealed /\ ~self.cells[i].is_mine
                    THEN [self.cells[i] EXCEPT !.is_revealed = TRUE]
                    ELSE self.cells[i]]]
        ELSE self

\* ---------------------------------------------------------------- reveal
\* faulty variant: a flagged cell is not protected from a reveal
is_ignored_revealed_only(cell) == cell.is_revealed

\* "if cell.state.is_revealed or cell.state.is_flagged: return"
is_ignored(cell) == cell.is_revealed \/ cell.is_flagged

\* faulty variant: the cell is opened but not counted
open_cell_uncounted(self, idx) ==
    [self EXCEPT !.cells[idx].is_revealed = TRUE]

\* faulty variant: the opened cell is counted twice
open_cell_counted_twice(self, idx) ==
    [self EXCEPT !.cells[idx].is_revealed = TRUE,
                 !.revealed_count = self.revealed_count + 2]

\* "cell.state.is_revealed = True; self.revealed_count += 1"
open_cell(self, idx) ==
    [self EXCEPT !.cells[idx].is_revealed = TRUE,
                 !.revealed_count = self.revealed_count + 1]

\* faulty variant: a cell with one mine around it floods too
floods_into_numbers(cell) == cell.adjacent <= 1

\* "if cell.state.adjacent == 0": the opened cell floods to its neighbours
floods(cell) == cell.adjacent = 0

RECURSIVE reveal(_, _, _, _)
RECURSIVE reveal_neighbors(_, _, _, _)
RECURSIVE reveal_neighbors_skip_last(_, _, _, _)

\* faulty variant: the loop stops one neighbour short
reveal_neighbors_skip_last(self, ns, k, sample) ==
    IF k >= Len(ns) \/ self.exc # "none"
    THEN self
    ELSE reveal_neighbors_skip_last(reveal(self, ns[k][1], ns[k][2], sample),
                                    ns, k + 1, sample)

\* the loop "for nc, nr in self.neighbors(col, row): self.reveal(nc, nr)",
\* from its k-th iteration on; an exception leaves the loop
reveal_neighbors(self, ns, k, sample) ==
    IF k > Len(ns) \/ self.exc # "none"
    THEN self
    ELSE reveal_neighbors(reveal(self, ns[k][1], ns[k][2], sample),
                          ns, k + 1, sample)

reveal(self, col, row, sample) ==
    IF ~is_inbounds(col, row)
    THEN self
    ELSE
      LET s1 == IF ~self.mines_placed
                THEN place_mines(self, col, row, sample)
                ELSE self
          idx == index(col, row)
      IN  IF s1.exc # "none"
          THEN s1
          ELSE IF is_ignored(s1.cells[idx])
          THEN s1
          ELSE
            LET s2 == open_cell(s1, idx)
            IN  IF s2.cells[idx].is_mine
                THEN reveal_all_mines([s2 EXCEPT !.game_over = TRUE])
                ELSE
                  LET s3 == IF floods(s2.cells[idx])
                            THEN reveal_neighbors(s2, neighbors(col, row), 1,
                                                  sample)
                            ELSE s2
                  IN  IF s3.exc # "none" THEN s3 ELSE check_win(s3)

\* ------------------------------------------------------------- flagging
\* faulty variant: the flag is toggled on revealed cells too
toggle_flag_any_cell(self, col, row) ==
    IF ~is_inbounds(col, row)
    THEN self
    ELSE LET idx == index(col, row)
         IN  [self EXCEPT
                !.cells[idx].is_flagged = ~self.cells[idx].is_flagged]

toggle_flag(self, col, row) ==
    IF ~is_inbounds(col, row)
    THEN self
    ELSE LET idx == index(col, row)
         IN  IF ~self.cells[idx].is_revealed
             THEN [self EXCEPT
                     !.cells[idx].is_flagged = ~self.cells[idx].is_flagged]
             ELSE self

\* the body of flagged_count is a bare "pass": the call yields None
flagged_count(self) == PyNone

NumFlagged(cs) == Cardinality({i \in DOMAIN cs : cs[i].is_flagged})

\* ---------------------------------------------------------------- system
Init ==
    /\ cols \in 1..MaxCells
    /\ rows \in 1..MaxCells
    /\ cols * rows <= MaxCells
    /\ num_mines \in 0..MaxMines
    /\ cells = [i \in 0..(cols * rows - 1) |-> CellState]
    /\ mines_placed = FALSE
    /\ revealed_count = 0
    /\ game_over = FALSE
    /\ win = FALSE
    /\ result = Returned(PyNone)

Install(out) ==
    /\ cells' = out.cells
    /\ mines_placed' = out.mines_placed
    /\ revealed_count' = out.revealed_count
    /\ game_over' = out.game_over
    /\ win' = out.win
    /\ result' = IF out.exc = "none" THEN Returned(PyNone) ELSE Raised(out.exc)
    /\ UNCHANGED <<cols, rows, num_mines>>

\* the draws random.sample can make for this call; it is consulted only by the
\* in-bounds call that finds the mines not yet placed
Draws(col, row) ==
    IF is_inbounds(col, row) /\ ~mines_placed
    THEN random_sample(pool(col, row), num_mines)
    ELSE {[raised |-> FALSE, picked |-> {}]}

Reveal(col, row) ==
    \E sample \in Draws(col, row) :
        Install(reveal(Self, col, row, sample))

ToggleFlag(col, row) ==
    LET out == toggle_flag(Self, col, row)
    IN  /\ NumFlagged(out.cells) <= MaxFlags
        /\ Install(out)

FlaggedCount ==
    /\ result' = Returned(flagged_count(Self))
    /\ UNCHANGED <<cols, rows, num_mines, cells, mines_placed, revealed_count,
                   game_over, win>>

\* coordinates a caller passes: every cell of the board, and one coordinate
\* beyond each of the four edges that is_inbounds tests
Coords ==
    all_positions \cup {<<-1, 0>>, <<cols, 0>>, <<0, -1>>, <<0, rows>>}

RevealAny == \E p \in Coords : Reveal(p[1], p[2])

ToggleFlagAny == \E p \in Coords : ToggleFlag(p[1], p[2])

Next == RevealAny \/ ToggleFlagAny \/ FlaggedCount

Spec == Init /\ [][Next]_vars

\* ------------------------------------------------- vocabulary of the properties
Col(i) == i % cols
Row(i) == i \div cols

Abs(n) == IF n < 0 THEN -n ELSE n

\* cells i and j touch (8-neighbourhood), computed from the coordinates alone
Touch(i, j) ==
    /\ i # j
    /\ Abs(Col(i) - Col(j)) <= 1
    /\ Abs(Row(i) - Row(j)) <= 1

RevealedCells(cs) == {i \in DOMAIN cs : cs[i].is_revealed}
MineCells(cs) == {i \in DOMAIN cs : cs[i].is_mine}
FlaggedCells(cs) == {i \in DOMAIN cs : cs[i].is_flagged}

\* this step is a call reveal(col, row) on cell i
RevealCall(i) == Reveal(Col(i), Row(i))

\* this step is the in-bounds reveal call that places the mines
FirstReveal(i) == ~mines_placed /\ mines_placed' /\ RevealCall(i)

\* ------------------------------------------------------------------- C1
\* after the step, cell i and every cell touching it are free of mines, no
\* mine is revealed and the game is not over
SafeAfterClickOn(i) ==
    /\ \A j \in DOMAIN cells :
          (j = i \/ Touch(i, j)) => ~cells'[j].is_mine
    /\ MineCells(cells') \cap RevealedCells(cells') = {}
    /\ ~game_over'

\* C1: the reveal call that places the mines leaves its own cell and every
\* cell touching it without a mine, opens no mine and does not end the game.
C1_FirstClickSafety ==
    [][(~mines_placed /\ mines_placed') =>
          \A i \in DOMAIN cells : SafeAfterClickOn(i) \/ ~RevealCall(i)]_vars

\* a first click that placed mines and opened cells
C1_Witness ==
    /\ mines_placed
    /\ num_mines > 0
    /\ Cardinality(MineCells(cells)) = num_mines
    /\ revealed_count > 0
    /\ ~game_over

\* ------------------------------------------------------------------- C2
\* C2 (as claimed): revealed_count equals the number of revealed cells in every
\* reachable state.
C2_CountEqualsRevealed ==
    revealed_count = Cardinality(RevealedCells(cells))

\* C2 (amended): revealed_count never exceeds the number of revealed cells and
\* equals it in every reachable state in which game_over is false.
C2_CountEqualsRevealedUntilLoss ==
    /\ revealed_count <= Cardinality(RevealedCells(cells))
    /\ ~game_over => revealed_count = Cardinality(RevealedCells(cells))

\* a game in progress with several cells opened by one cascade
C2_Witness ==
    /\ mines_placed
    /\ ~game_over
    /\ num_mines > 0
    /\ revealed_count >= 2
    /\ revealed_count = Cardinality(RevealedCells(cells))

\* ------------------------------------------------------------------- C3
\* C3: win and game_over are never both true.
C3_WinAndGameOverExclusive == ~(win /\ game_over)

\* ------------------------------------------------------------------- C4
\* C4: no cell is flagged and revealed at the same time.
C4_FlaggedNeverRevealed ==
    \A i \in DOMAIN cells : ~(cells[i].is_flagged /\ cells[i].is_revealed)

\* ------------------------------------------------------------------- C5
\* C5: flagged_count() returns the number of cells that are flagged.
C5_FlaggedCountIsNumberOfFlags ==
    flagged_count(Self) = PyInt(Cardinality(FlaggedCells(cells)))

\* ------------------------------------------------------------------- C6
\* this step is a reveal call on cell i that opens it and finds a mine
RevealsMine(i) ==
    /\ ~cells[i].is_revealed
    /\ cells'[i].is_revealed
    /\ cells'[i].is_mine
    /\ RevealCall(i)

\* C6: after a reveal call that opens a mine, game_over is true, every mine is
\* revealed and win is false.
C6_LossDetection ==
    [][\A i \in DOMAIN cells :
          RevealsMine(i) =>
            /\ game_over'
            /\ MineCells(cells') \subseteq RevealedCells(cells')
            /\ ~win']_vars

\* ------------------------------------------------------------------- C7
\* this step opened a cell that is not a mine
OpensNonMine ==
    \E i \in DOMAIN cells :
        ~cells[i].is_revealed /\ cells'[i].is_revealed /\ ~cells'[i].is_mine

\* C7: win turns true in exactly the steps that open a non-mine cell and end
\* with revealed_count = cols*rows - num_mines and game_over false; in the
\* state where it turns true every non-mine cell is revealed.
C7_WinDetection ==
    [][/\ (~win /\ win') <=>
              /\ OpensNonMine
              /\ revealed_count' = cols * rows - num_mines
              /\ ~game_over'
       /\ (~win /\ win') =>
              (DOMAIN cells \ MineCells(cells')) \subseteq RevealedCells(cells')
      ]_vars

\* a game won on a board that has mines
C7_Witness ==
    /\ win
    /\ ~game_over
    /\ num_mines > 0
    /\ revealed_count = cols * rows - num_mines

\* ------------------------------------------------------------------- C8
\* least set that holds S and every cell of `through` touching one of its
\* cells that lies in `zero`
RECURSIVE FloodClosure(_, _, _)
FloodClosure(S, through, zero) ==
    LET more == S \cup {j \in through : \E i \in S \cap zero : Touch(i, j)}
    IN  IF more = S THEN S ELSE FloodClosure(more, through, zero)

\* non-mine cells with no mine around them, as stored by placement
ZeroCells(cs) == {i \in DOMAIN cs : ~cs[i].is_mine /\ cs[i].adjacent = 0}

\* this step is a reveal call on cell i, hidden and unflagged before it, that
\* opens it as a zero-adjacent non-mine cell (the mines placed by then)
RevealsZero(i) ==
    /\ ~cells[i].is_revealed
    /\ ~cells[i].is_flagged
    /\ cells'[i].is_revealed
    /\ mines_placed'
    /\ i \in ZeroCells(cells')
    /\ RevealCall(i)

\* C8 (as claimed): such a call reveals the connected region of zero-adjacent
\* cells around the cell and the numbered cells bordering it, and no other cell.
C8_CascadeWholeRegion ==
    [][\A i \in DOMAIN cells :
          RevealsZero(i) =>
            RevealedCells(cells') =
              RevealedCells(cells)
                \cup FloodClosure({i}, DOMAIN cells \ MineCells(cells'),
                                  ZeroCells(cells'))]_vars

\* cells a flood may enter: hidden and unflagged before the call
Enterable == {j \in DOMAIN cells : ~cells[j].is_revealed /\ ~cells[j].is_flagged}

\* C8 (amended): such a call reveals exactly the cells reached from the cell by
\* steps from a hidden unflagged zero-adjacent cell to a hidden unflagged cell
\* touching it; flagged cells stay hidden and are not passed through, and no
\* other cell changes is_revealed.
C8_CascadeStopsAtFlags ==
    [][\A i \in DOMAIN cells :
          RevealsZero(i) =>
            /\ RevealedCells(cells') =
                 RevealedCells(cells)
                   \cup FloodClosure({i}, Enterable,
                                     ZeroCells(cells') \cap Enterable)
            /\ FlaggedCells(cells') = FlaggedCells(cells)]_vars

\* a flood went around a flagged cell: a revealed zero cell touches a cell that
\* is still hidden under its flag
C8_Witness ==
    /\ mines_placed
    /\ Cardinality(RevealedCells(cells)) >= 3
    /\ \E i \in ZeroCells(cells) \cap RevealedCells(cells) :
         \E j \in FlaggedCells(cells) :
            Touch(i, j) /\ ~cells[j].is_revealed

\* ------------------------------------------------------------------- C9
\* C9 (as claimed): on a board with 0 mines the first in-bounds reveal call
\* reveals every cell and sets win.
C9_ZeroMinesFirstRevealWins ==
    [][\A i \in DOMAIN cells :
          (num_mines = 0 /\ FirstReveal(i)) =>
            /\ RevealedCells(cells') = DOMAIN cells
            /\ win']_vars

\* C9 (amended): on a board with 0 mines and no flagged cell the first
\* in-bounds reveal call reveals every cell and sets win.
C9_ZeroMinesNoFlagsFirstRevealWins ==
    [][\A i \in DOMAIN cells :
          (num_mines = 0 /\ FlaggedCells(cells) = {} /\ FirstReveal(i)) =>
            /\ RevealedCells(cells') = DOMAIN cells
            /\ win']_vars

\* a mine-free board of several cells, fully revealed and won
C9_Witness ==
    /\ num_mines = 0
    /\ cols * rows >= 4
    /\ mines_placed
    /\ RevealedCells(cells) = DOMAIN cells
    /\ FlaggedCells(cells) = {}
    /\ revealed_count = cols * rows
    /\ win

\* ------------------------------------------------------------------ C10
\* cells left for mines when the first click is on cell i
PoolSize(i) ==
    cols * rows - 1 - Cardinality({j \in DOMAIN cells : Touch(i, j)})

\* C10: a first reveal on a cell whose candidate pool is smaller than
\* num_mines raises and leaves the whole board as it was.
C10_PlacementAllOrNothing ==
    [][\A i \in DOMAIN cells :
          (~mines_placed /\ num_mines > PoolSize(i) /\ RevealCall(i)) =>
            /\ result'.exc = "ValueError"
            /\ cells' = cells
            /\ UNCHANGED <<mines_placed, revealed_count, game_over, win>>]_vars

\* a first reveal has just failed on a board of the 3-wide kind of the example
C10_Witness ==
    /\ result.exc = "ValueError"
    /\ ~mines_placed
    /\ num_mines >= 1
    /\ cols = 3
    /\ MineCells(cells) = {}
    /\ RevealedCells(cells) = {}

\* ------------------------------------------------------------------ C11
\* C11: in every state after a successful placement exactly num_mines cells
\* have is_mine set.
C11_MineCountExact ==
    mines_placed => Cardinality(MineCells(cells)) = num_mines

\* a lost game on a board with two mines: placement long past
C11_Witness ==
    /\ mines_placed
    /\ num_mines = 2
    /\ Cardinality(MineCells(cells)) = 2
    /\ game_over

\* ------------------------------------------------------------------ C12
\* mines among the cells touching cell i, recounted from the coordinates
MinesAround(cs, i) ==
    Cardinality({j \in DOMAIN cs : Touch(i, j) /\ cs[j].is_mine})

\* C12: in every state after placement the stored adjacent of every non-mine
\* cell equals the number of mines among the cells touching it.
C12_AdjacencyCorrect ==
    mines_placed =>
        \A i \in DOMAIN cells :
            ~cells[i].is_mine => cells[i].adjacent = MinesAround(cells, i)

\* a board on which a cell counts two mines, one of them on a diagonal
C12_Witness ==
    /\ mines_placed
    /\ \E i \in DOMAIN cells :
          /\ ~cells[i].is_mine
          /\ cells[i].adjacent = 2
          /\ \E j \in MineCells(cells) :
                Touch(i, j) /\ Col(i) # Col(j) /\ Row(i) # Row(j)

\* ------------------------------------------------------------------ C13
\* C13: game_over, once true, stays true; win, once true, stays true.
C13_Terminality ==
    [][(game_over => game_over') /\ (win => win')]_vars

\* a game that was won and, by a later reveal, lost: both flags have stayed
C13_Witness ==
    /\ win
    /\ game_over
    /\ MineCells(cells) \subseteq RevealedCells(cells)

\* ------------------------------------------------------------------ C14
\* C14: no step turns is_revealed of a cell from true to false.
C14_RevealMonotonic ==
    [][\A i \in DOMAIN cells :
          cells[i].is_revealed => cells'[i].is_revealed]_vars

\* a lost game in which cells opened earlier are still open
C14_Witness ==
    /\ game_over
    /\ ~win
    /\ Cardinality(RevealedCells(cells) \ MineCells(cells)) >= 2

\* ------------------------------------------------------------------ C15
\* the state shows that place_mines has run: it succeeded, or the last call
\* ended in its ValueError
PlacementHasRun == mines_placed \/ result.exc = "ValueError"

\* this step is an in-bounds reveal call that finds the mines not placed, and
\* so runs place_mines
RunsPlacement == ~mines_placed /\ \E i \in DOMAIN cells : RevealCall(i)

\* C15 (as claimed): once place_mines has run, also when it failed, no later
\* reveal call runs it again.
C15_PlacementAtMostOnce ==
    [][PlacementHasRun => ~RunsPlacement]_vars

\* where the mines are and what the cells count
Layout(cs) == [i \in DOMAIN cs |-> <<cs[i].is_mine, cs[i].adjacent>>]

\* C15 (amended): placement succeeds at most once: mines_placed, once true,
\* stays true, and the mine layout and the adjacent counts change only in the
\* step that turns mines_placed true; a placement that failed leaves
\* mines_placed false, so that the next in-bounds reveal runs place_mines again.
C15_PlacementSucceedsOnce ==
    [][/\ mines_placed => mines_placed'
       /\ Layout(cells') # Layout(cells) => (~mines_placed /\ mines_placed')
       /\ result'.exc = "ValueError" => ~mines_placed']_vars

\* a lost game: a reveal later than the placing one has hit a placed mine
C15_Witness ==
    /\ mines_placed
    /\ game_over
    /\ num_mines >= 1
    /\ result.exc = "none"

\* ------------------------------------------------------------------ C16
\* C16: from every reachable state every in-bounds reveal call ends (it
\* returns, or raises from placement), and it raises revealed_count by no more
\* than the number of cells it turns revealed: no cell is opened twice.
C16_EachCellOpenedOnce ==
    \A i \in DOMAIN cells :
        \A sample \in Draws(Col(i), Row(i)) :
            LET out == reveal(Self, Col(i), Row(i), sample)
            IN  /\ out.exc \in {"none", "ValueError"}
                /\ out.revealed_count >= revealed_count
                /\ out.revealed_count - revealed_count <=
                     Cardinality(RevealedCells(out.cells) \ RevealedCells(cells))

\* a game in progress on a mined board with a flood's worth of open cells
C16_Witness ==
    /\ mines_placed
    /\ ~game_over
    /\ num_mines >= 1
    /\ revealed_count >= 4
    /\ Cardinality(ZeroCells(cells) \cap RevealedCells(cells)) >= 2

\* ------------------------------------------------------------------ C17
\* (c, r) lies outside the board
OffBoard(c, r) == c < 0 \/ c >= cols \/ r < 0 \/ r >= rows

\* reveal(c, r) returns with the board exactly as it was
RevealIsNoOp(c, r) ==
    \A sample \in Draws(c, r) : reveal(Self, c, r, sample) = Self

\* C17: a reveal call with out-of-bounds coordinates changes nothing (no mines
\* are placed); once the mines are placed, a reveal call on a revealed or
\* flagged cell changes nothing.
C17_RevealNoOps ==
    /\ \A c \in (-1)..cols, r \in (-1)..rows :
          OffBoard(c, r) => RevealIsNoOp(c, r)
    /\ mines_placed =>
          \A i \in DOMAIN cells :
              (cells[i].is_revealed \/ cells[i].is_flagged) =>
                  RevealIsNoOp(Col(i), Row(i))

\* a game in progress with a flagged hidden mine and open cells to click again
C17_Witness ==
    /\ mines_placed
    /\ ~game_over
    /\ RevealedCells(cells) # {}
    /\ \E i \in MineCells(cells) : cells[i].is_flagged /\ ~cells[i].is_revealed

\* ------------------------------------------------------------------ C18
\* C18: while game_over is false no mine is revealed and revealed_count is
\* the number of revealed cells.
C18_NoMineOpenBeforeLoss ==
    ~game_over =>
        /\ MineCells(cells) \cap RevealedCells(cells) = {}
        /\ revealed_count = Cardinality(RevealedCells(cells))

\* a won game with two mines, both still hidden, one of them flagged
C18_Witness ==
    /\ win
    /\ ~game_over
    /\ num_mines = 2
    /\ MineCells(cells) \cap FlaggedCells(cells) # {}
    /\ revealed_count = Cardinality(RevealedCells(cells))

\* ------------------------------------------------------------------ C19
\* C19: a cell that is flagged and revealed is a mine, and the game is then
\* over; while win is true no non-mine cell is flagged.
C19_FlaggedRevealedOnlyLostMines ==
    /\ \A i \in DOMAIN cells :
          (cells[i].is_flagged /\ cells[i].is_revealed) =>
              (cells[i].is_mine /\ game_over)
    /\ win => FlaggedCells(cells) \subseteq MineCells(cells)

\* a lost game that shows a mine under its flag
C19_Witness ==
    /\ game_over
    /\ \E i \in MineCells(cells) : cells[i].is_flagged /\ cells[i].is_revealed

\* ------------------------------------------------------------------ C20
\* mines that are revealed
OpenMines(cs) == MineCells(cs) \cap RevealedCells(cs)

\* C20: from every reachable state, a reveal call whose target is not a mine
\* (under whatever mines are placed by the end of the call) neither sets
\* game_over nor reveals a mine, whatever is flagged: only a call on a mine
\* itself ends the game.
C20_CascadeNeverDetonates ==
    \A i \in DOMAIN cells :
        \A sample \in Draws(Col(i), Row(i)) :
            LET out == reveal(Self, Col(i), Row(i), sample)
            IN  ~out.cells[i].is_mine =>
                    /\ out.game_over = game_over
                    /\ OpenMines(out.cells) = OpenMines(cells)

\* a flood has run up to the numbers around a hidden mine, a flag on the board
C20_Witness ==
    /\ mines_placed
    /\ ~game_over
    /\ FlaggedCells(cells) # {}
    /\ \E i \in ZeroCells(cells) \cap RevealedCells(cells) :
         \E j \in RevealedCells(cells) :
            Touch(i, j) /\ cells[j].adjacent >= 1
    /\ MineCells(cells) # {}

====
